---------------------------- MODULE Spec2Model ----------------------------
(***************************************************************************)
(* The adaptive capacity prober of SAWL (limit_probe.py): the response     *)
(* classifier, the trial runner and the binary-search controller.          *)
(*                                                                         *)
(* Texts are sequences of tokens.  A token is one character class of the   *)
(* response ("sp" a blank, "d" a non-zero digit, "x" a letter that is no   *)
(* JSON escape letter, "q" a double quote, "bs" a backslash, and the       *)
(* punctuation "." "{" "}" ":" ",") or a fixed substring that the          *)
(* classifier looks for: "EXC" is the marker __EXCEPTION__, "SPK" is the   *)
(* phrase "The speaker", "PAD" is a run of PadLen letters.                 *)
(***************************************************************************)
EXTENDS Integers, Sequences, FiniteSets, TLC

\* ------------------------------------------------------------------ bounds

\* Number of pieces a response text is assembled from.
MaxPieces == 3
\* Length, in characters, of the filler token "PAD".
PadLen == 45
\* Largest source text (full_len), in characters.
MaxFullLen == 6
\* Largest --tolerance tried.
MaxTol == 4

\* --------------------------------------------------------- program constants

\* len(t) < 80 in looks_like_stub
StubSpeakerLimit == 80
\* len(t) < 120 in looks_like_stub
StubNumberedLimit == 120
\* len("__EXCEPTION__")
MarkerLen == 13
\* len("The speaker")
SpeakerLen == 11

\* ------------------------------------------------------------------- texts

CharLen(tok) ==
    CASE tok = "EXC" -> MarkerLen
      [] tok = "SPK" -> SpeakerLen
      [] tok = "PAD" -> PadLen
      [] OTHER -> 1

RECURSIVE TextLen(_)
TextLen(t) == IF t = <<>> THEN 0 ELSE CharLen(Head(t)) + TextLen(Tail(t))

\* Tokens that begin (and end) with a word character [A-Za-z0-9_].
WordTokens == {"d", "x", "EXC", "SPK", "PAD"}

\* The first position j >= i of t that holds no token of S (Len(t)+1 if none).
SkipWhile(t, i, S) ==
    LET stops == {j \in i..(Len(t) + 1) : j = Len(t) + 1 \/ t[j] \notin S}
    IN  CHOOSE j \in stops : \A k \in stops : j <= k

lstrip(t) == SubSeq(t, SkipWhile(t, 1, {"sp"}), Len(t))

RECURSIVE rstrip(_)
rstrip(t) ==
    IF t # <<>> /\ t[Len(t)] = "sp" THEN rstrip(SubSeq(t, 1, Len(t) - 1)) ELSE t

strip(t) == rstrip(lstrip(t))

\* t.find(tok) and t.rfind(tok), 1-based; 0 stands for Python's -1.
find(t, tok) ==
    LET hits == {j \in 1..Len(t) : t[j] = tok}
    IN  IF hits = {} THEN 0 ELSE CHOOSE j \in hits : \A k \in hits : j <= k

rfind(t, tok) ==
    LET hits == {j \in 1..Len(t) : t[j] = tok}
    IN  IF hits = {} THEN 0 ELSE CHOOSE j \in hits : \A k \in hits : j >= k

\* re.match(r"^\s*\d+\.\s+", t): the position after the match, 0 if none.
MatchNumbered(t) ==
    LET a == SkipWhile(t, 1, {"sp"})
        b == SkipWhile(t, a, {"d"})
        c == SkipWhile(t, b + 1, {"sp"})
    IN  IF b > a /\ b <= Len(t) /\ t[b] = "." /\ c > b + 1 THEN c ELSE 0

\* re.match(r"^\s*\d+\.\s+The speaker\b", t, re.IGNORECASE)
MatchSpeaker(t) ==
    LET c == MatchNumbered(t)
    IN  /\ c # 0
        /\ c <= Len(t)
        /\ t[c] = "SPK"
        /\ (c + 1 > Len(t) \/ t[c + 1] \notin WordTokens)

\* ------------------------------------------------------------------- json
\* json.loads on a token text.  Every parser returns the position after what
\* it parsed, or 0 when the text is no JSON there.

RECURSIVE ScanString(_, _)
ScanString(t, j) ==
    IF j > Len(t) THEN 0
    ELSE IF t[j] = "q" THEN j + 1
    ELSE IF t[j] = "bs"
         THEN IF j + 1 <= Len(t) /\ t[j + 1] \in {"q", "bs"}
              THEN ScanString(t, j + 2)
              ELSE 0
    ELSE ScanString(t, j + 1)

ParseString(t, i) == IF i <= Len(t) /\ t[i] = "q" THEN ScanString(t, i + 1) ELSE 0

ParseNumber(t, i) ==
    LET b == SkipWhile(t, i, {"d"})
        c == SkipWhile(t, b + 1, {"d"})
    IN  IF b = i THEN 0
        ELSE IF b <= Len(t) /\ t[b] = "." /\ c > b + 1 THEN c
        ELSE b

RECURSIVE ParseValue(_, _), ParseObject(_, _), ParseMembers(_, _), AfterKey(_, _),
          AfterColon(_, _), AfterValue(_, _), AfterMember(_, _)
ParseValue(t, i) ==
    IF i > Len(t) THEN 0
    ELSE IF t[i] = "{" THEN ParseObject(t, i)
    ELSE IF t[i] = "q" THEN ParseString(t, i)
    ELSE IF t[i] = "d" THEN ParseNumber(t, i)
    ELSE 0

ParseObject(t, i) ==
    LET j == SkipWhile(t, i + 1, {"sp"})
    IN  IF j > Len(t) THEN 0
        ELSE IF t[j] = "}" THEN j + 1
        ELSE ParseMembers(t, j)

ParseMembers(t, j) == AfterKey(t, ParseString(t, j))

AfterKey(t, k) == IF k = 0 THEN 0 ELSE AfterColon(t, SkipWhile(t, k, {"sp"}))

AfterColon(t, c) ==
    IF c > Len(t) \/ t[c] # ":" THEN 0
    ELSE AfterValue(t, ParseValue(t, SkipWhile(t, c + 1, {"sp"})))

AfterValue(t, v) == IF v = 0 THEN 0 ELSE AfterMember(t, SkipWhile(t, v, {"sp"}))

AfterMember(t, e) ==
    IF e > Len(t) THEN 0
    ELSE IF t[e] = "}" THEN e + 1
    ELSE IF t[e] = "," THEN ParseMembers(t, SkipWhile(t, e + 1, {"sp"}))
    ELSE 0

\* json.loads(t) returns (does not raise).
json_loads(t) ==
    LET e == ParseValue(t, SkipWhile(t, 1, {"sp"}))
    IN  e # 0 /\ SkipWhile(t, e, {"sp"}) = Len(t) + 1

\* ------------------------------------------- the brace scanner (sawl_autogen)
\* The loop without the escape flag: every quote inside a string ends it.
RECURSIVE ScanObjectEnd_NoEscape(_, _, _, _, _)
ScanObjectEnd_NoEscape(txt, i, depth, in_str, esc) ==
    IF i > Len(txt) THEN 0
    ELSE IF in_str
         THEN ScanObjectEnd_NoEscape(txt, i + 1, depth, txt[i] # "q", FALSE)
    ELSE IF txt[i] = "q" THEN ScanObjectEnd_NoEscape(txt, i + 1, depth, TRUE, FALSE)
    ELSE IF txt[i] = "{" THEN ScanObjectEnd_NoEscape(txt, i + 1, depth + 1, FALSE, FALSE)
    ELSE IF txt[i] = "}"
         THEN IF depth - 1 = 0 THEN i
              ELSE ScanObjectEnd_NoEscape(txt, i + 1, depth - 1, FALSE, FALSE)
    ELSE ScanObjectEnd_NoEscape(txt, i + 1, depth, FALSE, FALSE)

\* The loop of extract_json_from_text from position i on: the position of the
\* "}" that brings depth to 0, or 0 when the text ends first.
RECURSIVE ScanObjectEnd(_, _, _, _, _)
ScanObjectEnd(txt, i, depth, in_str, esc) ==
    IF i > Len(txt) THEN 0
    ELSE IF in_str
         THEN IF esc THEN ScanObjectEnd(txt, i + 1, depth, TRUE, FALSE)
              ELSE IF txt[i] = "bs" THEN ScanObjectEnd(txt, i + 1, depth, TRUE, TRUE)
              ELSE IF txt[i] = "q" THEN ScanObjectEnd(txt, i + 1, depth, FALSE, FALSE)
              ELSE ScanObjectEnd(txt, i + 1, depth, TRUE, FALSE)
    ELSE IF txt[i] = "q" THEN ScanObjectEnd(txt, i + 1, depth, TRUE, esc)
    ELSE IF txt[i] = "{" THEN ScanObjectEnd(txt, i + 1, depth + 1, FALSE, esc)
    ELSE IF txt[i] = "}"
         THEN IF depth - 1 = 0 THEN i
              ELSE ScanObjectEnd(txt, i + 1, depth - 1, FALSE, esc)
    ELSE ScanObjectEnd(txt, i + 1, depth, FALSE, esc)

\* re.sub(r",\s*}", "}", candidate)
RECURSIVE FixTrailingCommas(_)
FixTrailingCommas(t) ==
    IF t = <<>> THEN <<>>
    ELSE LET j == SkipWhile(t, 2, {"sp"})
         IN  IF t[1] = "," /\ j <= Len(t) /\ t[j] = "}"
             THEN <<"}">> \o FixTrailingCommas(SubSeq(t, j + 1, Len(t)))
             ELSE <<t[1]>> \o FixTrailingCommas(Tail(t))

\* extract_json_from_text: what it raises ("" when it returns the object) and
\* the slice [start, end] it selected (0 when it selected none).
extract_json_from_text(txt) ==
    LET start == find(txt, "{")
        end == IF start = 0 THEN 0 ELSE ScanObjectEnd(txt, start, 0, FALSE, FALSE)
        candidate == FixTrailingCommas(strip(SubSeq(txt, start, end)))
    IN  IF txt = <<>>
        THEN [raised |-> "ValueError: empty", start |-> 0, end |-> 0]
        ELSE IF start = 0
        THEN [raised |-> "ValueError: no object", start |-> 0, end |-> 0]
        ELSE IF end = 0
        THEN [raised |-> "ValueError: no complete object", start |-> start, end |-> 0]
        ELSE [raised |-> IF json_loads(candidate) THEN "" ELSE "JSONDecodeError",
              start |-> start, end |-> end]

\* ------------------------------------------------------------ the classifier

looks_like_stub(resp_text) ==
    LET t == strip(resp_text)
    IN  IF t = <<>> THEN TRUE
        ELSE IF TextLen(t) < StubSpeakerLimit /\ MatchSpeaker(t) THEN TRUE
        ELSE IF TextLen(t) < StubNumberedLimit /\ MatchNumbered(t) # 0 THEN TRUE
        ELSE FALSE

try_parse_json_output(resp_text) ==
    LET t == strip(resp_text)
        start == find(t, "{")
        end == rfind(t, "}")
    IN  IF t = <<>> THEN FALSE
        ELSE IF t[1] = "{" /\ t[Len(t)] = "}" THEN json_loads(t)
        ELSE IF start = 0 \/ end = 0 \/ end <= start THEN FALSE
        ELSE json_loads(SubSeq(t, start, end))

\* classify_outcome with the plain-text success labelled as limit_probe_prod
\* labels it.
classify_outcome_ProdLabel(resp_text, want_json, done_reason) ==
    LET t == strip(resp_text)
    IN  IF t # <<>> /\ t[1] = "EXC" THEN "ERROR"
        ELSE IF t = <<>> THEN "EMPTY"
        ELSE IF looks_like_stub(t) THEN "STUB"
        ELSE IF want_json
             THEN IF try_parse_json_output(t) THEN "OK_JSON"
                  ELSE IF done_reason = "length" THEN "TRUNCATED"
                  ELSE "BAD_JSON"
        ELSE IF done_reason = "length" THEN "TRUNCATED"
        ELSE "OK"

\* classify_outcome with the structured parse tried before the stub rule.
classify_outcome_ParseFirst(resp_text, want_json, done_reason) ==
    LET t == strip(resp_text)
    IN  IF t # <<>> /\ t[1] = "EXC" THEN "ERROR"
        ELSE IF t = <<>> THEN "EMPTY"
        ELSE IF want_json /\ try_parse_json_output(t) THEN "OK_JSON"
        ELSE IF looks_like_stub(t) THEN "STUB"
        ELSE IF want_json
             THEN IF done_reason = "length" THEN "TRUNCATED" ELSE "BAD_JSON"
        ELSE IF done_reason = "length" THEN "TRUNCATED"
        ELSE "OK_TEXT"

classify_outcome(resp_text, want_json, done_reason) ==
    LET t == strip(resp_text)
    IN  IF t # <<>> /\ t[1] = "EXC" THEN "ERROR"
        ELSE IF t = <<>> THEN "EMPTY"
        ELSE IF looks_like_stub(t) THEN "STUB"
        ELSE IF want_json
             THEN IF try_parse_json_output(t) THEN "OK_JSON"
                  ELSE IF done_reason = "length" THEN "TRUNCATED"
                  ELSE "BAD_JSON"
        ELSE IF done_reason = "length" THEN "TRUNCATED"
        ELSE "OK_TEXT"

\* is_success, the closure of main
is_success(outcome) == outcome \in {"OK_JSON", "OK_TEXT"}

\* ------------------------------------------------------------ response texts

NumberedMarker == <<"d", ".", "sp">>
SimpleObject == <<"{", "q", "x", "q", ":", "d", "}">>
\* {"x":"1. The speaker"}
StubInObject == <<"{", "q", "x", "q", ":", "q", "d", ".", "sp", "SPK", "q", "}">>
\* {"x":"{"}
BraceInString == <<"{", "q", "x", "q", ":", "q", "{", "q", "}">>
\* {"x":   (cut off)
CutObject == <<"{", "q", "x", "q", ":">>
\* {"x":"\"}"}
EscapedQuote == <<"{", "q", "x", "q", ":", "q", "bs", "q", "}", "q", "}">>
\* {"x":1, }
TrailingComma == <<"{", "q", "x", "q", ":", "d", ",", "sp", "}">>

Pieces ==
    { <<"sp">>, <<"x">>, <<"}">>, <<"EXC">>, <<"SPK">>, <<"PAD", "PAD">>,
      NumberedMarker, SimpleObject, StubInObject, BraceInString, CutObject,
      EscapedQuote, TrailingComma }

RECURSIVE TextsOf(_)
TextsOf(n) ==
    IF n = 0 THEN {<<>>}
    ELSE LET shorter == TextsOf(n - 1)
         IN  shorter \cup {t \o p : t \in shorter, p \in Pieces}

Texts == TextsOf(MaxPieces)

\* ---------------------------------------------------------- the trial runner
\* What the network does with one POST: the request is answered with a 2xx
\* status ("ok"), answered with another status (urllib raises HTTPError), or
\* not answered (connection failure, timeout: any other exception).
\* A body is either the text it consists of (form "raw") or a well-formed
\* JSON object (form "env") of which only the fields run_once reads are
\* kept: resp says what "response" holds ("absent", "null", "number" or a
\* "string", whose text is text) and done what "done_reason" holds.

RawBody(t) == [form |-> "raw", text |-> t, resp |-> "absent", done |-> "absent"]

Envelope(resp, t, done) == [form |-> "env", text |-> t, resp |-> resp, done |-> done]

\* str(e) of the exception post_ollama catches: "__EXCEPTION__ Name: message"
ExceptionText == <<"EXC", "sp", "x">>

post_ollama(net) ==
    IF net.kind = "exception"
    THEN [status |-> 0, http_text |-> RawBody(ExceptionText)]
    ELSE [status |-> net.status, http_text |-> net.body]

\* The dict extract_generate_fields returns: whether it is the _parse_error
\* dict (then raw is its _raw), and what its "response" and "done_reason" are.
\* The keys of an object written in tokens are runs of "x": it is an object
\* without "response", "done_reason" and "_raw".
extract_generate_fields(http_text) ==
    LET t == lstrip(http_text.text)
        parse_error == [parse_error |-> TRUE, raw |-> t, resp |-> "absent",
                        text |-> <<>>, done |-> "absent"]
    IN  IF http_text.form = "env"
        THEN [parse_error |-> FALSE, raw |-> <<>>, resp |-> http_text.resp,
              text |-> http_text.text, done |-> http_text.done]
        ELSE IF t = <<>> \/ t[1] # "{" THEN parse_error
        ELSE IF json_loads(t)
             THEN [parse_error |-> FALSE, raw |-> <<>>, resp |-> "absent",
                   text |-> <<>>, done |-> "absent"]
        ELSE parse_error

\* data.get("response", data.get("_raw", "")): a string or another value.
resp_text_of(data) ==
    IF data.resp = "string" THEN [is_str |-> TRUE, text |-> data.text]
    ELSE IF data.resp # "absent" THEN [is_str |-> FALSE, text |-> <<>>]
    ELSE IF data.parse_error THEN [is_str |-> TRUE, text |-> data.raw]
    ELSE [is_str |-> TRUE, text |-> <<>>]

\* data.get("done_reason", "unknown")
done_reason_of(data) == IF data.done = "absent" THEN "unknown" ELSE data.done

\* run_once: the RunResult (n_chars, http_status, done_reason, outcome), or
\* raised = TRUE when classify_outcome raises (resp_text has no strip()).
\* net_kind and parse_error record where the result came from.
run_once(net, n, want_json) ==
    LET posted == post_ollama(net)
        data == extract_generate_fields(posted.http_text)
        resp_text == resp_text_of(data)
        done_reason == done_reason_of(data)
    IN  [raised |-> ~resp_text.is_str,
         n_chars |-> n,
         http_status |-> posted.status,
         done_reason |-> done_reason,
         outcome |-> IF resp_text.is_str
                     THEN classify_outcome(resp_text.text, want_json, done_reason)
                     ELSE "-",
         net_kind |-> net.kind,
         parse_error |-> data.parse_error]

\* The network results a trial of the controller may meet.
NetResults ==
    { [kind |-> "exception", status |-> 0, body |-> RawBody(<<>>)],
      [kind |-> "http_error", status |-> 500, body |-> RawBody(<<"x">>)],
      [kind |-> "http_error", status |-> 404,
       body |-> Envelope("absent", <<>>, "absent")],
      [kind |-> "ok", status |-> 200, body |-> RawBody(<<"x">>)],
      [kind |-> "ok", status |-> 200, body |-> RawBody(SimpleObject \o <<"x">>)] }
    \cup
    { [kind |-> "ok", status |-> 200, body |-> b] :
        b \in { Envelope("string", <<"x">>, "stop"),
                Envelope("string", <<"x">>, "length"),
                Envelope("string", SimpleObject, "stop"),
                Envelope("string", NumberedMarker \o <<"SPK">>, "stop"),
                Envelope("string", <<>>, "stop"),
                Envelope("string", <<"x">>, "absent"),
                Envelope("null", <<>>, "stop"),
                Envelope("number", <<>>, "stop") } }

\* run_once tabulated over the network results (the length of the prefix
\* does not enter the outcome): the actions look the result up.
RunOnceTable ==
    [net \in NetResults |-> [want_json \in BOOLEAN |-> run_once(net, 0, want_json)]]

RunResultAt(net, n, want_json) ==
    [RunOnceTable[net][want_json] EXCEPT !.n_chars = n]

\* ------------------------------------------------------ the search controller

VARIABLES
    args,        \* the parsed command line: min_chars, max_chars, tolerance, want_json
    full_len,    \* len(transcript)
    lo, hi,      \* the search interval
    mid,         \* the candidate length of the loop trial (0 before the first)
    final_n,     \* the length of the final check (0 before it)
    best_ok,     \* <<>> for None, <<rr>> for the RunResult kept
    rr,          \* the RunResult of the last run_once
    log,         \* the lines of the log file
    report,      \* what the RESULT block printed
    pc,          \* where main is
    http_calls,  \* POSTs issued by this run
    loop_iters,  \* iterations of the while loop started by this run
    log_base,    \* lines the log file held when the run started
    c_pc, c_in, c_out,  \* the classifier applied to one input
    c_json,      \* extract_json_from_text applied to the input's text
    p_args,      \* limit_probe_prod: min_chars, tolerance, want_json
    p_full_len,  \* limit_probe_prod: len(transcript)
    p_lo, p_hi,  \* limit_probe_prod: the search interval
    p_mid,       \* limit_probe_prod: the length of the last loop attempt
    p_best,      \* limit_probe_prod: best
    p_best_meta, \* limit_probe_prod: <<>> for None, <<meta>> for the meta kept
    p_ok,        \* limit_probe_prod: ok of the last attempt
    p_log,       \* limit_probe_prod: the lines of its log file
    p_dumps,     \* limit_probe_prod: the n of the dump files written
    p_report,    \* limit_probe_prod: what the RESULT block printed
    p_pc,        \* limit_probe_prod: where its main is
    answers,     \* what the service answered, by the length it was sent
    first_run    \* <<>>, or what an earlier run of limit_probe did

probe_vars == <<args, full_len, lo, hi, mid, final_n, best_ok, rr, log, report,
                pc, http_calls, loop_iters, log_base>>
classify_vars == <<c_pc, c_in, c_out, c_json>>
prod_vars == <<p_args, p_full_len, p_lo, p_hi, p_mid, p_best, p_best_meta, p_ok,
               p_log, p_dumps, p_report, p_pc>>
replay_vars == <<answers, first_run>>
vars == <<args, full_len, lo, hi, mid, final_n, best_ok, rr, log, report,
          pc, http_calls, loop_iters, log_base, c_pc, c_in, c_out, c_json,
          p_args, p_full_len, p_lo, p_hi, p_mid, p_best, p_best_meta, p_ok,
          p_log, p_dumps, p_report, p_pc, answers, first_run>>

Max(a, b) == IF a >= b THEN a ELSE b
Min(a, b) == IF a <= b THEN a ELSE b

NoRun == [raised |-> FALSE, n_chars |-> 0, http_status |-> 0, done_reason |-> "-",
          outcome |-> "-", net_kind |-> "-", parse_error |-> FALSE]

NoReport == [kind |-> "none", n |-> 0, failed_n |-> 0]

\* A line an earlier run left in the log file.
OldLine == [n_chars |-> 1, outcome |-> "OK_TEXT", search_lo |-> 1, search_hi |-> 2]

\* write_log_line opening the file with "w": the line replaces the file.
write_log_line_Overwrite(lines, r, l, h) ==
    <<[n_chars |-> r.n_chars, outcome |-> r.outcome, search_lo |-> l, search_hi |-> h]>>

\* write_log_line with the two bounds passed in the other order.
write_log_line_Swapped(lines, r, l, h) ==
    Append(lines, [n_chars |-> r.n_chars, outcome |-> r.outcome,
                   search_lo |-> h, search_hi |-> l])

\* write_log_line: the line appended, of which the fields the search decides
\* are kept (n_chars, outcome, search_lo, search_hi).
write_log_line(lines, r, l, h) ==
    Append(lines, [n_chars |-> r.n_chars, outcome |-> r.outcome,
                   search_lo |-> l, search_hi |-> h])

\* lo = max(1, min(args.min_chars, full_len))
InitialLo(a, n) == Max(1, Min(a.min_chars, n))

\* hi without --max_chars.
InitialHi_IgnoreMax(a, n) == n

\* hi = full_len if args.max_chars == 0 else min(args.max_chars, full_len)
InitialHi(a, n) == IF a.max_chars = 0 THEN n ELSE Min(a.max_chars, n)

\* The candidate taken at the lower end of the interval: a linear scan.
Midpoint_LowEnd(l, h) == l

\* mid = (lo + hi) // 2
Midpoint(l, h) == (l + h) \div 2

\* lo = mid: the bound is not stepped past the trial.
RaisedLo_NoStep(m) == m

\* lo = mid + 1  # try bigger
RaisedLo(m) == m + 1

\* hi = mid + 1 after a failure.
LoweredHi_WrongSign(m) == m + 1

\* hi = mid - 1  # try smaller
LoweredHi(m) == m - 1

\* best_ok is set by the first success only.
RecordedBest_KeepFirst(best, r) == IF best = <<>> THEN <<r>> ELSE best

\* best_ok = rr
RecordedBest(best, r) == <<r>>

\* The final check at the full length, whatever the loop left.
FinalLength_Full(h, n) == n

\* final_n = max(1, min(hi, full_len))
FinalLength(h, n) == Max(1, Min(h, n))

\* The RESULT block with the recorded best asked first.
ResultBlock_BestFirst(r, best, n) ==
    IF best # <<>> THEN [kind |-> "best", n |-> best[1].n_chars, failed_n |-> n]
    ELSE IF is_success(r.outcome) THEN [kind |-> "final", n |-> n, failed_n |-> 0]
    ELSE [kind |-> "no_success", n |-> 0, failed_n |-> 0]

\* The RESULT block of main.
ResultBlock(r, best, n) ==
    IF is_success(r.outcome) THEN [kind |-> "final", n |-> n, failed_n |-> 0]
    ELSE IF best # <<>> THEN [kind |-> "best", n |-> best[1].n_chars, failed_n |-> n]
    ELSE [kind |-> "no_success", n |-> 0, failed_n |-> 0]

NoJson == [raised |-> "-", start |-> 0, end |-> 0]

ClassifierOff == c_pc = "off" /\ c_in = <<>> /\ c_out = "-" /\ c_json = NoJson

NoProdArgs == [min_chars |-> 0, tolerance |-> 0, want_json |-> FALSE]

\* limit_probe_prod has not been started.
ProdOff ==
    /\ p_args = NoProdArgs
    /\ p_full_len = 0 /\ p_lo = 0 /\ p_hi = 0 /\ p_mid = 0
    /\ p_best = 0 /\ p_best_meta = <<>> /\ p_ok = FALSE
    /\ p_log = <<>> /\ p_dumps = {} /\ p_report = <<>>
    /\ p_pc = "off"

\* The command lines and source texts a run may be given.
ArgSets ==
    [min_chars : (-1)..(MaxFullLen + 1), max_chars : (-1)..(MaxFullLen + 1),
     tolerance : 0..MaxTol, want_json : BOOLEAN]

NoArgs == [min_chars |-> 0, max_chars |-> 0, tolerance |-> 0, want_json |-> FALSE]

\* No run has ended and the service has answered nothing yet.
NoReplay == answers = <<>> /\ first_run = <<>>

\* main has been entered; the log file is absent or holds an earlier run's line.
InitProbe ==
    /\ args = NoArgs
    /\ full_len = 0
    /\ log \in {<<>>, <<OldLine>>}
    /\ log_base = Len(log)
    /\ lo = 0 /\ hi = 0 /\ mid = 0 /\ final_n = 0
    /\ best_ok = <<>>
    /\ rr = NoRun
    /\ report = NoReport
    /\ pc = "start"
    /\ http_calls = 0
    /\ loop_iters = 0
    /\ ClassifierOff
    /\ ProdOff
    /\ NoReplay

\* main, lines 254-300: the command line is parsed, the transcript read, and
\* the interval accepted, or SystemExit("Bad range").
Configure ==
    /\ pc = "start"
    /\ args' \in ArgSets
    /\ full_len' \in 0..MaxFullLen
    /\ lo' = InitialLo(args', full_len')
    /\ hi' = InitialHi(args', full_len')
    /\ pc' = IF lo' >= hi' THEN "bad_range" ELSE "loop"
    /\ UNCHANGED <<mid, final_n, best_ok, rr, log, report,
                   http_calls, loop_iters, log_base>>
    /\ UNCHANGED classify_vars
    /\ UNCHANGED prod_vars
    /\ UNCHANGED replay_vars

\* One iteration of the while loop up to the return of run_once (lines 317-336);
\* when run_once raises, rr is not assigned and main ends with the traceback.
LoopRun ==
    /\ pc = "loop"
    /\ hi - lo > args.tolerance
    /\ \E net \in NetResults :
          LET result == RunResultAt(net, Midpoint(lo, hi), args.want_json)
          IN  /\ mid' = Midpoint(lo, hi)
              /\ rr' = IF result.raised THEN rr ELSE result
              /\ pc' = IF result.raised THEN "crashed" ELSE "loop_log"
    /\ http_calls' = http_calls + 1
    /\ loop_iters' = loop_iters + 1
    /\ UNCHANGED <<args, full_len, lo, hi, final_n, best_ok, log, report, log_base>>
    /\ UNCHANGED classify_vars
    /\ UNCHANGED prod_vars
    /\ UNCHANGED replay_vars

\* The rest of the iteration: the log line and the interval update (lines 338-345).
LoopLog ==
    /\ pc = "loop_log"
    /\ log' = write_log_line(log, rr, lo, hi)
    /\ IF is_success(rr.outcome)
       THEN /\ best_ok' = RecordedBest(best_ok, rr)
            /\ lo' = RaisedLo(mid)
            /\ hi' = hi
       ELSE /\ hi' = LoweredHi(mid)
            /\ lo' = lo
            /\ best_ok' = best_ok
    /\ pc' = "loop"
    /\ UNCHANGED <<args, full_len, mid, final_n, rr, report, http_calls,
                   loop_iters, log_base>>
    /\ UNCHANGED classify_vars
    /\ UNCHANGED prod_vars
    /\ UNCHANGED replay_vars

\* The final check up to the return of run_once (lines 347-363).
FinalRun ==
    /\ pc = "loop"
    /\ ~(hi - lo > args.tolerance)
    /\ final_n' = FinalLength(hi, full_len)
    /\ \E net \in NetResults :
          LET result == RunResultAt(net, FinalLength(hi, full_len), args.want_json)
          IN  /\ rr' = IF result.raised THEN rr ELSE result
              /\ pc' = IF result.raised THEN "crashed" ELSE "final_log"
    /\ http_calls' = http_calls + 1
    /\ UNCHANGED <<args, full_len, lo, hi, mid, best_ok, log, report,
                   loop_iters, log_base>>
    /\ UNCHANGED classify_vars
    /\ UNCHANGED prod_vars
    /\ UNCHANGED replay_vars

\* The log line of the final check (line 364).
FinalLog ==
    /\ pc = "final_log"
    /\ log' = write_log_line(log, rr, lo, hi)
    /\ pc' = "report"
    /\ UNCHANGED <<args, full_len, lo, hi, mid, final_n, best_ok, rr, report,
                   http_calls, loop_iters, log_base>>
    /\ UNCHANGED classify_vars
    /\ UNCHANGED prod_vars
    /\ UNCHANGED replay_vars

\* The RESULT block (lines 366-382).
Report ==
    /\ pc = "report"
    /\ report' = ResultBlock(rr, best_ok, final_n)
    /\ pc' = "done"
    /\ UNCHANGED <<args, full_len, lo, hi, mid, final_n, best_ok, rr, log,
                   http_calls, loop_iters, log_base>>
    /\ UNCHANGED classify_vars
    /\ UNCHANGED prod_vars
    /\ UNCHANGED replay_vars

NextProbe == Configure \/ LoopRun \/ LoopLog \/ FinalRun \/ FinalLog \/ Report

Spec == InitProbe /\ [][NextProbe]_vars

\* main runs to its end: a step that can be taken is taken.
SpecFair == Spec /\ WF_vars(NextProbe)

\* The operator interrupts the run (KeyboardInterrupt, which no handler of
\* limit_probe catches: post_ollama catches Exception only) while no request
\* is out: before a trial is started ("interrupted_between"), or after
\* run_once's request was answered and before write_log_line has written
\* (lines 56-58, 198-231, 336: "interrupted_after_call").
Interrupt ==
    /\ pc \in {"loop", "loop_log", "final_log", "report"}
    /\ pc' = IF pc \in {"loop_log", "final_log"} THEN "interrupted_after_call"
             ELSE "interrupted_between"
    /\ UNCHANGED <<args, full_len, lo, hi, mid, final_n, best_ok, rr, log, report,
                   http_calls, loop_iters, log_base>>
    /\ UNCHANGED classify_vars
    /\ UNCHANGED prod_vars
    /\ UNCHANGED replay_vars

\* The operator interrupts the run while urlopen waits for the answer (line 61)
\* of a loop trial or of the final check.
InterruptCall ==
    /\ pc = "loop"
    /\ IF hi - lo > args.tolerance
       THEN /\ mid' = Midpoint(lo, hi)
            /\ loop_iters' = loop_iters + 1
            /\ final_n' = final_n
       ELSE /\ final_n' = FinalLength(hi, full_len)
            /\ UNCHANGED <<mid, loop_iters>>
    /\ http_calls' = http_calls + 1
    /\ pc' = "interrupted_in_call"
    /\ UNCHANGED <<args, full_len, lo, hi, best_ok, rr, log, report, log_base>>
    /\ UNCHANGED classify_vars
    /\ UNCHANGED prod_vars
    /\ UNCHANGED replay_vars

NextInterrupt == NextProbe \/ Interrupt \/ InterruptCall

SpecInterrupt == InitProbe /\ [][NextInterrupt]_vars

\* ------------------------------------------------------ the boundary scenario
\* main started on a transcript of 10,000 characters with --min_chars 2000
\* --tolerance 500 and no --max_chars (its default 0 means the full length).
ConfigureScenario ==
    /\ pc = "start"
    /\ args' \in {[min_chars |-> 2000, max_chars |-> 0, tolerance |-> 500,
                   want_json |-> w] : w \in BOOLEAN}
    /\ full_len' = 10000
    /\ lo' = InitialLo(args', full_len')
    /\ hi' = InitialHi(args', full_len')
    /\ pc' = IF lo' >= hi' THEN "bad_range" ELSE "loop"
    /\ UNCHANGED <<mid, final_n, best_ok, rr, log, report,
                   http_calls, loop_iters, log_base>>
    /\ UNCHANGED classify_vars
    /\ UNCHANGED prod_vars
    /\ UNCHANGED replay_vars

NextScenario ==
    ConfigureScenario \/ LoopRun \/ LoopLog \/ FinalRun \/ FinalLog \/ Report

SpecScenario == InitProbe /\ [][NextScenario]_vars

\* ------------------------------------------------ the same search, run twice
\* The service as a function of the length it is sent: a length it has answered
\* before gets the same answer again, any other length gets any answer.
AnswersAt(n) == IF n \in DOMAIN answers THEN {answers[n]} ELSE NetResults

Answered(n, net) ==
    [m \in DOMAIN answers \cup {n} |-> IF m = n THEN net ELSE answers[m]]

\* The lengths of the trials this run has issued: one per record it wrote, and
\* the trial that is out or that ended the run with a traceback.
IssuedLengths ==
    [i \in 1..(Len(log) - log_base) |-> log[log_base + i].n_chars]
        \o (IF http_calls > Len(log) - log_base
            THEN <<IF http_calls = loop_iters THEN mid ELSE final_n>>
            ELSE <<>>)

\* LoopRun against that service.
ReplayLoopRun ==
    /\ pc = "loop"
    /\ hi - lo > args.tolerance
    /\ \E net \in AnswersAt(Midpoint(lo, hi)) :
          /\ mid' = Midpoint(lo, hi)
          /\ rr' = IF RunResultAt(net, Midpoint(lo, hi), args.want_json).raised
                   THEN rr
                   ELSE RunResultAt(net, Midpoint(lo, hi), args.want_json)
          /\ pc' = IF RunResultAt(net, Midpoint(lo, hi), args.want_json).raised
                   THEN "crashed" ELSE "loop_log"
          /\ answers' = Answered(Midpoint(lo, hi), net)
    /\ http_calls' = http_calls + 1
    /\ loop_iters' = loop_iters + 1
    /\ UNCHANGED <<args, full_len, lo, hi, final_n, best_ok, log, report, log_base>>
    /\ UNCHANGED first_run
    /\ UNCHANGED classify_vars
    /\ UNCHANGED prod_vars

\* FinalRun against that service.
ReplayFinalRun ==
    /\ pc = "loop"
    /\ ~(hi - lo > args.tolerance)
    /\ final_n' = FinalLength(hi, full_len)
    /\ \E net \in AnswersAt(FinalLength(hi, full_len)) :
          /\ rr' = IF RunResultAt(net, FinalLength(hi, full_len), args.want_json).raised
                   THEN rr
                   ELSE RunResultAt(net, FinalLength(hi, full_len), args.want_json)
          /\ pc' = IF RunResultAt(net, FinalLength(hi, full_len), args.want_json).raised
                   THEN "crashed" ELSE "final_log"
          /\ answers' = Answered(FinalLength(hi, full_len), net)
    /\ http_calls' = http_calls + 1
    /\ UNCHANGED <<args, full_len, lo, hi, mid, best_ok, log, report,
                   loop_iters, log_base>>
    /\ UNCHANGED first_run
    /\ UNCHANGED classify_vars
    /\ UNCHANGED prod_vars

\* A second run that takes up the interval of the log's last record.
Rerun_ResumeFromLog ==
    /\ pc \in {"done", "crashed"}
    /\ first_run = <<>>
    /\ first_run' = <<[trials |-> IssuedLengths, lo |-> lo, hi |-> hi,
                       report |-> report, pc |-> pc]>>
    /\ lo' = IF Len(log) > log_base THEN log[Len(log)].search_lo
             ELSE InitialLo(args, full_len)
    /\ hi' = IF Len(log) > log_base THEN log[Len(log)].search_hi
             ELSE InitialHi(args, full_len)
    /\ mid' = 0 /\ final_n' = 0
    /\ best_ok' = <<>>
    /\ rr' = NoRun
    /\ report' = NoReport
    /\ http_calls' = 0
    /\ loop_iters' = 0
    /\ log_base' = Len(log)
    /\ pc' = "loop"
    /\ UNCHANGED <<args, full_len, log, answers>>
    /\ UNCHANGED classify_vars
    /\ UNCHANGED prod_vars

\* main is started again with the same command line on the same transcript,
\* after a run that ended (lines 254-315): every local starts afresh, the
\* log file is the one the first run left, and nothing of it is read.
Rerun ==
    /\ pc \in {"done", "crashed"}
    /\ first_run = <<>>
    /\ first_run' = <<[trials |-> IssuedLengths, lo |-> lo, hi |-> hi,
                       report |-> report, pc |-> pc]>>
    /\ lo' = InitialLo(args, full_len)
    /\ hi' = InitialHi(args, full_len)
    /\ mid' = 0 /\ final_n' = 0
    /\ best_ok' = <<>>
    /\ rr' = NoRun
    /\ report' = NoReport
    /\ http_calls' = 0
    /\ loop_iters' = 0
    /\ log_base' = Len(log)
    /\ pc' = "loop"
    /\ UNCHANGED <<args, full_len, log, answers>>
    /\ UNCHANGED classify_vars
    /\ UNCHANGED prod_vars

NextTwoRuns ==
    Configure \/ ReplayLoopRun \/ LoopLog \/ ReplayFinalRun \/ FinalLog \/ Report
        \/ Rerun

SpecTwoRuns == InitProbe /\ [][NextTwoRuns]_vars

\* ------------------------------------------- the classifier on its own inputs

ProbeOff ==
    /\ args = NoArgs
    /\ full_len = 0 /\ lo = 0 /\ hi = 0 /\ mid = 0 /\ final_n = 0
    /\ best_ok = <<>> /\ rr = NoRun /\ log = <<>> /\ report = NoReport
    /\ pc = "off" /\ http_calls = 0 /\ loop_iters = 0 /\ log_base = 0
    /\ NoReplay

\* The inputs of lines 213-214 of run_once: a response text, the mode, and what
\* the envelope holds as done_reason.
InitClassify ==
    /\ ProbeOff
    /\ ProdOff
    /\ c_pc = "input"
    /\ c_in \in [text : Texts, want_json : BOOLEAN, done : {"absent", "length", "stop"}]
    /\ c_out = "-"
    /\ c_json = NoJson

Classify ==
    /\ c_pc = "input"
    /\ c_out' = classify_outcome(c_in.text, c_in.want_json,
                                 done_reason_of([done |-> c_in.done]))
    /\ c_pc' = "classified"
    /\ UNCHANGED <<c_in, c_json>>
    /\ UNCHANGED probe_vars
    /\ UNCHANGED prod_vars
    /\ UNCHANGED replay_vars

\* sawl_autogen hands the response text to extract_json_from_text (line 497).
ExtractJson ==
    /\ c_pc = "input"
    /\ c_json' = extract_json_from_text(c_in.text)
    /\ c_pc' = "extracted"
    /\ UNCHANGED <<c_in, c_out>>
    /\ UNCHANGED probe_vars
    /\ UNCHANGED prod_vars
    /\ UNCHANGED replay_vars

NextClassify == Classify \/ ExtractJson

SpecClassify == InitClassify /\ [][NextClassify]_vars

\* ------------------------------------------------------- limit_probe_prod

is_json_object(s) ==
    LET t == strip(s)
    IN  t # <<>> /\ json_loads(t)

\* call_ollama: requests.post, raise_for_status and r.json() raise on a
\* failed connection, a non-2xx status and a body that is no JSON; obj.get
\* raises when the body is JSON but no object, len(txt) when "response" is a
\* number.  Otherwise txt is the response string ("" for null or absent) and
\* of meta the done_reason is kept.
\* r.json() returns a dict on which obj.get works.
json_object(body_text) == json_loads(body_text) /\ lstrip(body_text)[1] = "{"

call_ollama(net) ==
    IF net.kind # "ok" THEN [raised |-> TRUE, txt |-> <<>>, done_reason |-> "-"]
    ELSE IF net.body.form = "raw"
    THEN [raised |-> ~json_object(net.body.text), txt |-> <<>>,
          done_reason |-> "absent"]
    ELSE [raised |-> net.body.resp = "number",
          txt |-> IF net.body.resp = "string" THEN net.body.text ELSE <<>>,
          done_reason |-> net.body.done]

\* ok = is_json_object(txt) if args.want_json else (len(txt.strip()) > 0)
attempt_ok(txt, want_json) ==
    IF want_json THEN is_json_object(txt) ELSE strip(txt) # <<>>

\* What attempt(n) leaves: ok, meta and the log row.
attempted(called, ok, n) ==
    [raised |-> called.raised, ok |-> ok,
     meta |-> [done_reason |-> called.done_reason],
     row |-> [n_chars |-> n, ok |-> ok, done_reason |-> called.done_reason]]

called_attempt(called, n, want_json) ==
    attempted(called, attempt_ok(called.txt, want_json), n)

attempt(net, n, want_json) == called_attempt(call_ollama(net), n, want_json)

\* attempt tabulated over the network results and the mode.
AttemptTable ==
    [net \in NetResults |-> [want_json \in BOOLEAN |-> attempt(net, 0, want_json)]]

AttemptAt(net, n, want_json) ==
    [AttemptTable[net][want_json] EXCEPT !.row.n_chars = n]

\* with open(args.log, "a") ... f.write(json.dumps(row) + "\n")
append_row(lines, row) == Append(lines, row)

OldRow == [n_chars |-> 1, ok |-> TRUE, done_reason |-> "stop"]

ProdArgSets ==
    [min_chars : (-1)..(MaxFullLen + 1), tolerance : 0..MaxTol, want_json : BOOLEAN]

\* main of limit_probe_prod has been entered; its log file is absent or holds
\* an earlier run's line.
InitProd ==
    /\ ProbeOff
    /\ ClassifierOff
    /\ p_args = NoProdArgs
    /\ p_full_len = 0 /\ p_lo = 0 /\ p_hi = 0 /\ p_mid = 0
    /\ p_best = 0 /\ p_best_meta = <<>> /\ p_ok = FALSE
    /\ p_log \in {<<>>, <<OldRow>>}
    /\ p_dumps = {} /\ p_report = <<>>
    /\ p_pc = "start"

\* main, lines 80-109
ProdConfigure ==
    /\ p_pc = "start"
    /\ p_args' \in ProdArgSets
    /\ p_full_len' \in 0..MaxFullLen
    /\ p_lo' = p_args'.min_chars
    /\ p_hi' = p_full_len'
    /\ p_best' = 0 /\ p_best_meta' = <<>>
    /\ p_pc' = "loop"
    /\ UNCHANGED <<p_mid, p_ok, p_log, p_dumps, p_report>>
    /\ UNCHANGED <<probe_vars, classify_vars, replay_vars>>

\* One iteration of the while loop (lines 164-173); when call_ollama raises,
\* main ends with the traceback before anything is written.
ProdLoop ==
    /\ p_pc = "loop"
    /\ p_hi - p_lo > p_args.tolerance
    /\ p_mid' = Midpoint(p_lo, p_hi)
    /\ \E net \in NetResults :
          LET a == AttemptAt(net, p_mid', p_args.want_json)
          IN  IF a.raised
              THEN /\ p_pc' = "crashed"
                   /\ UNCHANGED <<p_lo, p_hi, p_best, p_best_meta, p_ok, p_log, p_dumps>>
              ELSE /\ p_pc' = "loop"
                   /\ p_ok' = a.ok
                   /\ p_log' = append_row(p_log, a.row)
                   /\ p_dumps' = IF a.ok THEN p_dumps ELSE p_dumps \cup {p_mid'}
                   /\ IF a.ok
                      THEN /\ p_best' = p_mid'
                           /\ p_best_meta' = <<a.meta>>
                           /\ p_lo' = p_mid' + 1
                           /\ p_hi' = p_hi
                      ELSE /\ p_hi' = p_mid' - 1
                           /\ UNCHANGED <<p_lo, p_best, p_best_meta>>
    /\ UNCHANGED <<p_args, p_full_len, p_report>>
    /\ UNCHANGED <<probe_vars, classify_vars, replay_vars>>

\* The final spot-check at full length (lines 176-180).
ProdFinal ==
    /\ p_pc = "loop"
    /\ ~(p_hi - p_lo > p_args.tolerance)
    /\ \E net \in NetResults :
          LET a == AttemptAt(net, p_full_len, p_args.want_json)
          IN  IF a.raised
              THEN /\ p_pc' = "crashed"
                   /\ UNCHANGED <<p_best, p_best_meta, p_ok, p_log, p_dumps>>
              ELSE /\ p_pc' = "report"
                   /\ p_ok' = a.ok
                   /\ p_log' = append_row(p_log, a.row)
                   /\ p_dumps' = IF a.ok THEN p_dumps ELSE p_dumps \cup {p_full_len}
                   /\ IF a.ok
                      THEN p_best' = p_full_len /\ p_best_meta' = <<a.meta>>
                      ELSE UNCHANGED <<p_best, p_best_meta>>
    /\ UNCHANGED <<p_args, p_full_len, p_lo, p_hi, p_mid, p_report>>
    /\ UNCHANGED <<probe_vars, classify_vars, replay_vars>>

\* The RESULT block (lines 182-187): "Max-good (approx): {best} chars", and
\* the "At best" line when best_meta is set.
ProdReport ==
    /\ p_pc = "report"
    /\ p_report' = <<[max_good |-> p_best, at_best |-> p_best_meta # <<>>]>>
    /\ p_pc' = "done"
    /\ UNCHANGED <<p_args, p_full_len, p_lo, p_hi, p_mid, p_best, p_best_meta,
                   p_ok, p_log, p_dumps>>
    /\ UNCHANGED <<probe_vars, classify_vars, replay_vars>>

NextProd == ProdConfigure \/ ProdLoop \/ ProdFinal \/ ProdReport

SpecProd == InitProd /\ [][NextProd]_vars

\* A run of either variant.
InitVariants == InitProbe \/ InitProd

NextVariants == NextProbe \/ NextProd

SpecVariants == InitVariants /\ [][NextVariants]_vars

\* ------------------------------------------------------------------ claims

\* The outcomes the claims call success categories.
SuccessCategories == {"OK_JSON", "OK_TEXT"}

\* The log lines of this run, and those of its loop trials.
RunLines == (log_base + 1)..Len(log)
LoopLines == (log_base + 1)..(log_base + loop_iters)

\* A run_once has returned and its result is about to be logged.
TrialReturned == pc \in {"loop_log", "final_log"}

\* C1: from the moment the initial interval is accepted until the session
\* ends, lo <= hi holds in every state, for every tolerance >= 0.
C1_LoLeHi ==
    pc \in {"loop", "loop_log", "final_log", "report", "done", "crashed"} => lo <= hi

\* C2: every iteration of the loop strictly decreases hi - lo; the loop runs a
\* further trial exactly while hi - lo > tolerance and leaves at the first state
\* with hi - lo <= tolerance; and from every state of the search the session
\* reaches its report, in every run whose trials each return an outcome (a
\* trial that raises returns none: pc = "crashed").
C2_SearchTerminates ==
    /\ [][pc = "loop_log" => hi' - lo' < hi - lo]_vars
    /\ [][pc = "loop" =>
            IF hi - lo > args.tolerance
            THEN pc' \in {"loop_log", "crashed"} /\ loop_iters' = loop_iters + 1
            ELSE pc' \in {"final_log", "crashed"} /\ loop_iters' = loop_iters]_vars
    /\ (pc = "loop") ~> (pc = "done" \/ pc = "crashed")

\* C2 witness: a run that went twice round the loop and printed its report.
C2_Witness == pc = "done" /\ loop_iters >= 2 /\ hi - lo <= args.tolerance

\* C3: once the loop has exited, exactly one more trial is run before the
\* report, at length max(1, min(hi, full_len)) for the hi the loop left.
C3_FinalCheck ==
    pc \in {"final_log", "report", "done"} =>
        /\ final_n = Max(1, Min(hi, full_len))
        /\ rr.n_chars = final_n
        /\ http_calls = loop_iters + 1
        /\ ~(hi - lo > args.tolerance)

\* C3 witness: a final check after two loop trials, below the full length.
C3_Witness ==
    pc = "report" /\ loop_iters >= 2 /\ final_n = hi /\ final_n < full_len

\* C4: the report is the final check's length if the final check succeeded;
\* otherwise, if a loop trial succeeded, the length of the recorded
\* best-success trial together with the failed final length; otherwise "no
\* successful size found".
C4_ThreeWayReport ==
    pc = "done" =>
        LET final == log[Len(log)]
            loop_success == {i \in LoopLines : log[i].outcome \in SuccessCategories}
        IN  /\ Len(log) = log_base + loop_iters + 1
            /\ IF final.outcome \in SuccessCategories
               THEN report = [kind |-> "final", n |-> final.n_chars, failed_n |-> 0]
               ELSE IF loop_success # {}
               THEN /\ best_ok # <<>>
                    /\ report = [kind |-> "best", n |-> best_ok[1].n_chars,
                                 failed_n |-> final.n_chars]
               ELSE report = [kind |-> "no_success", n |-> 0, failed_n |-> 0]

\* C4 witness: the final check succeeded although a loop trial had succeeded too.
C4_Witness ==
    /\ pc = "done"
    /\ report.kind = "final"
    /\ best_ok # <<>>

\* C5: a reported boundary length is the largest length among the trials of
\* this run whose outcome was a success category.
C5_ReportedIsLargestSuccess ==
    (pc = "done" /\ report.kind \in {"final", "best"}) =>
        /\ \E i \in RunLines :
              log[i].n_chars = report.n /\ log[i].outcome \in SuccessCategories
        /\ \A i \in RunLines :
              log[i].outcome \in SuccessCategories => log[i].n_chars <= report.n

\* C5 witness: two loop trials succeeded, the final check failed, and the
\* larger of the two is reported.
C5_Witness ==
    /\ pc = "done"
    /\ report.kind = "best"
    /\ Cardinality({i \in LoopLines : log[i].outcome \in SuccessCategories}) >= 2

\* C6: a trial whose HTTP call fails with a network error, a timeout or a
\* non-2xx status is never classified as a success.
C6_TransportFailureNeverSuccess ==
    (TrialReturned /\ rr.net_kind \in {"exception", "http_error"}) =>
        rr.outcome \notin SuccessCategories

\* C7: a trial whose HTTP body does not parse as the JSON envelope is never
\* classified as a success.
C7_UnparseableBodyNeverSuccess ==
    (TrialReturned /\ rr.parse_error) => rr.outcome \notin SuccessCategories

\* C8: no exception raised while running a single trial terminates the
\* search: every trial returns an outcome.
C8_NoTrialAborts == pc # "crashed"

\* C9: classify_outcome returns the result of the first matching rule of
\* (1) error marker, (2) empty, (3) stub, (4) structured: parses / length /
\* malformed, (5) text: length / success; and an absent completion reason
\* yields success when no earlier rule matches and the text (if structured)
\* parses.
C9_DecisionOrder ==
    c_pc = "classified" =>
        LET text == c_in.text
            marker == lstrip(text) # <<>> /\ Head(lstrip(text)) = "EXC"
            empty == \A i \in 1..Len(text) : text[i] = "sp"
            stub == looks_like_stub(text)
            parses == try_parse_json_output(text)
            length == c_in.done = "length"
        IN  /\ marker => c_out = "ERROR"
            /\ (~marker /\ empty) => c_out = "EMPTY"
            /\ (~marker /\ ~empty /\ stub) => c_out = "STUB"
            /\ (~marker /\ ~empty /\ ~stub /\ c_in.want_json) =>
                  c_out = IF parses THEN "OK_JSON"
                          ELSE IF length THEN "TRUNCATED" ELSE "BAD_JSON"
            /\ (~marker /\ ~empty /\ ~stub /\ ~c_in.want_json) =>
                  c_out = IF length THEN "TRUNCATED" ELSE "OK_TEXT"
            /\ (c_in.done = "absent" /\ ~marker /\ ~empty /\ ~stub
                  /\ (c_in.want_json => parses)) => c_out \in SuccessCategories

\* C9 witness: structured output requested, the text holds an object that
\* parses, and the stub rule won.
C9_Witness ==
    /\ c_pc = "classified"
    /\ c_in.want_json
    /\ try_parse_json_output(c_in.text)
    /\ c_out = "STUB"

\* A numbered-list opener followed by the generic continuation phrase, inside
\* the object that text[i..j] is.
StubInsideObject(text, i, j) ==
    /\ text[i] = "{"
    /\ text[j] = "}"
    /\ json_loads(SubSeq(text, i, j))
    /\ \E k \in (i + 1)..(j - 4) :
          SubSeq(text, k, k + 3) = <<"d", ".", "sp", "SPK">>

\* C10: with structured output requested, a response that contains a stub
\* pattern embedded inside an otherwise-valid brace-delimited JSON object is
\* classified STUB, never OK_JSON.
C10_StubInObjectIsStub ==
    (/\ c_pc = "classified"
     /\ c_in.want_json
     /\ \E i \in 1..Len(c_in.text) : \E j \in i..Len(c_in.text) :
           StubInsideObject(c_in.text, i, j))
    => c_out = "STUB"

\* The outcome categories of the spec.
OutcomeCategories ==
    {"OK_JSON", "OK_TEXT", "STUB", "EMPTY", "BAD_JSON", "TRUNCATED", "ERROR"}

\* C11: for every response text, every completion reason (absent included) and
\* both modes the classifier returns one of the seven outcome categories (the
\* outcome is a function of the three inputs).
C11_ClassifierTotal == c_pc = "classified" => c_out \in OutcomeCategories

C11_Witness ==
    /\ c_pc = "classified" /\ c_out = "TRUNCATED"
    /\ c_in.want_json /\ c_in.done = "length" /\ find(c_in.text, "{") # 0

\* String literals and balanced braces, by the lexical rule: a quote inside a
\* string closes it iff an even number of backslashes stands directly before it.
BackslashRun(t, k, j) ==
    Cardinality({m \in k..(j - 1) : \A n \in m..(j - 1) : t[n] = "bs"})

ClosingQuote(t, k) ==
    LET C == {j \in k..Len(t) : t[j] = "q" /\ BackslashRun(t, k, j) % 2 = 0}
    IN  IF C = {} THEN 0 ELSE CHOOSE j \in C : \A m \in C : j <= m

\* The positions from k on that lie outside every string literal.
RECURSIVE OutsideStrings(_, _)
OutsideStrings(t, k) ==
    IF k > Len(t) THEN {}
    ELSE IF t[k] = "q"
         THEN LET c == ClosingQuote(t, k + 1)
              IN  IF c = 0 THEN {} ELSE OutsideStrings(t, c + 1)
    ELSE {k} \cup OutsideStrings(t, k + 1)

\* The end of the first balanced object: the first "}" outside every string
\* before which as many braces were opened as closed, counted from the first
\* "{" (0 when there is none).
FirstBalancedEnd(t) ==
    LET start == find(t, "{")
        O == IF start = 0 THEN {} ELSE OutsideStrings(t, start)
        Opened(e) == Cardinality({m \in O : m <= e /\ t[m] = "{"})
        Closed(e) == Cardinality({m \in O : m <= e /\ t[m] = "}"})
        E == {e \in O : t[e] = "}" /\ Opened(e) = Closed(e)}
    IN  IF E = {} THEN 0 ELSE CHOOSE e \in E : \A m \in E : e <= m

FirstBalancedObject(t) == SubSeq(t, find(t, "{"), FirstBalancedEnd(t))

\* C12: with structured output requested, a text that is past the marker, empty
\* and stub rules and whose first balanced object is valid JSON is classified
\* OK_JSON, whatever precedes or follows that object.
C12_FirstBalancedObjectDecides ==
    (/\ c_pc = "classified" /\ c_in.want_json
     /\ strip(c_in.text) # <<>> /\ strip(c_in.text)[1] # "EXC"
     /\ ~looks_like_stub(c_in.text)
     /\ FirstBalancedEnd(c_in.text) # 0
     /\ json_loads(FirstBalancedObject(c_in.text)))
    => c_out = "OK_JSON"

\* C13: the end the brace scanner selects is the "}" that brings the depth
\* back to 0 outside every string literal, counted from the first "{": braces
\* inside strings are not counted and an escaped quote does not end a string;
\* the scanner finds no end exactly when there is no such "}".
C13_ScannerSkipsStrings ==
    c_pc = "extracted" =>
        /\ c_json.start = find(c_in.text, "{")
        /\ c_json.end = FirstBalancedEnd(c_in.text)
        /\ (c_in.text = BraceInString =>
                c_json.start = 1 /\ c_json.end = Len(BraceInString) /\ c_json.raised = "")

\* {"x":"\"}"} followed by a "}": the object with the escaped quote and the
\* brace inside its string is selected whole.
C13_Witness ==
    /\ c_pc = "extracted"
    /\ c_in.text = <<"x">> \o EscapedQuote \o <<"}">>
    /\ c_json.start = 2 /\ c_json.end = 1 + Len(EscapedQuote)
    /\ c_json.raised = ""

\* C14: in both variants the recorded best success is replaced only by a trial
\* that has just completed with success, every replacement is a trial strictly
\* larger than the one replaced, and a failed trial leaves it as it was.
C14_BestOnlyGrows ==
    [][/\ (best_ok' # best_ok => pc = "loop_log" /\ is_success(rr.outcome))
       /\ (pc = "loop_log" /\ is_success(rr.outcome) =>
              /\ best_ok' = <<rr>>
              /\ (best_ok # <<>> => rr.n_chars > best_ok[1].n_chars))
       /\ (<<p_best, p_best_meta>>' # <<p_best, p_best_meta>> =>
              p_log' # p_log /\ p_ok')
       /\ (p_log' # p_log /\ p_ok' =>
              /\ p_best' = p_log'[Len(p_log')].n_chars
              /\ p_best_meta' # <<>>
              /\ (p_best_meta # <<>> => p_best' > p_best))
      ]_vars

\* limit_probe_prod has replaced its best twice, the second time by the final
\* spot-check, and in between a trial failed.
C14_Witness ==
    /\ p_pc = "done" /\ Len(p_log) >= 3
    /\ p_best = p_full_len
    /\ p_log[Len(p_log)].ok
    /\ ~p_log[Len(p_log) - 1].ok
    /\ \E i \in 1..(Len(p_log) - 2) : p_log[i].ok /\ p_log[i].n_chars < p_full_len

\* The upper end --max_chars asks for: the full length when it is unspecified (0).
RequestedMax == IF args.max_chars = 0 THEN full_len ELSE args.max_chars

\* C15: when min_chars >= max_chars (the full source length standing in for an
\* unspecified max_chars) the run ends with the configuration error, without
\* an HTTP request and without a log record.
C15_BadRangeRejected ==
    (pc \notin {"start", "off"} /\ args.min_chars >= RequestedMax) =>
        /\ pc = "bad_range"
        /\ http_calls = 0
        /\ log \in {<<>>, <<OldLine>>} /\ Len(log) = log_base

\* --min_chars 3 --max_chars 2 on a source of 6 characters, after an earlier
\* run left a line in the log.
C15_Witness ==
    /\ pc = "bad_range"
    /\ args.min_chars = 3 /\ args.max_chars = 2 /\ full_len = 6
    /\ log = <<OldLine>> /\ http_calls = 0

\* C16: when the session has ended, the records this run appended are as many
\* as the HTTP requests it issued, which are the loop iterations plus one.
C16_OneRecordPerTrial ==
    pc \in {"done", "crashed"} =>
        /\ Len(log) - log_base = http_calls
        /\ http_calls = loop_iters + 1

\* C17: in both variants a step that writes the trial log leaves every line
\* the file held (an earlier run's lines included) as it was and adds exactly
\* one line at the end; every trial that returned is logged by such a step.
C17_LogAppendOnly ==
    [][/\ (log' # log =>
              Len(log') = Len(log) + 1 /\ SubSeq(log', 1, Len(log)) = log)
       /\ (pc \in {"loop_log", "final_log"} => log' # log)
       /\ (p_log' # p_log =>
              Len(p_log') = Len(p_log) + 1 /\ SubSeq(p_log', 1, Len(p_log)) = p_log)
       /\ (p_pc = "loop" /\ p_pc' # "crashed" => p_log' # p_log)
      ]_vars

\* A run that found an earlier run's line in the log and has added three.
C17_Witness ==
    /\ pc = "done" /\ log_base = 1 /\ Len(log) = 4
    /\ log[1] = OldLine

\* The loop records this run has written so far.
LoggedLoopLines ==
    SubSeq(log, log_base + 1, log_base + Min(loop_iters, Len(log) - log_base))

\* The update rule applied to an interval and a record.
ReplayStep(interval, rec) ==
    IF rec.outcome \in SuccessCategories
    THEN <<rec.n_chars + 1, interval[2]>>
    ELSE <<interval[1], rec.n_chars - 1>>

RECURSIVE Replay(_, _)
Replay(interval, recs) ==
    IF recs = <<>> THEN interval
    ELSE Replay(ReplayStep(interval, Head(recs)), Tail(recs))

\* C18: every record carries the interval in effect when its trial was issued:
\* the first the accepted interval, a loop record's n_chars the midpoint of its
\* bounds, each later record the interval the update rule gives from its
\* predecessor, the final check's record the interval the loop left; so
\* replaying the loop records from the first record's bounds gives the
\* controller's interval.
C18_LogReplaysInterval ==
    pc \in {"loop", "loop_log", "final_log", "report", "done", "crashed"} =>
        LET first == <<InitialLo(args, full_len), InitialHi(args, full_len)>>
        IN  /\ \A i \in RunLines :
                  <<log[i].search_lo, log[i].search_hi>> =
                      Replay(first, SubSeq(log, log_base + 1, i - 1))
            /\ \A i \in 1..Len(LoggedLoopLines) :
                  LoggedLoopLines[i].n_chars =
                      Midpoint(LoggedLoopLines[i].search_lo, LoggedLoopLines[i].search_hi)
            /\ Replay(first, LoggedLoopLines) = <<lo, hi>>
            /\ (pc = "done" =>
                  <<log[Len(log)].search_lo, log[Len(log)].search_hi>> = <<lo, hi>>)

\* A finished run whose loop raised lo once and lowered hi once.
C18_Witness ==
    /\ pc = "done" /\ loop_iters = 2
    /\ is_success(log[log_base + 1].outcome)
    /\ ~is_success(log[log_base + 2].outcome)
    /\ log[log_base + 3].search_lo = log[log_base + 1].n_chars + 1
    /\ log[log_base + 3].search_hi = log[log_base + 2].n_chars - 1

\* The lengths of the loop trials issued so far, in order.
LoopTrials ==
    [i \in 1..loop_iters |->
        IF i <= Len(LoggedLoopLines)
        THEN [n_chars |-> LoggedLoopLines[i].n_chars,
              failed |-> ~is_success(LoggedLoopLines[i].outcome), returned |-> TRUE]
        ELSE [n_chars |-> mid, failed |-> pc = "loop_log" /\ ~is_success(rr.outcome),
              returned |-> pc = "loop_log"]]

\* C20: after a loop trial that failed every later loop trial is strictly
\* smaller, and no two loop trials have the same length.
C20_NoRetry ==
    pc \notin {"start", "off", "bad_range"} =>
        \A i, j \in 1..loop_iters :
            i < j =>
                /\ LoopTrials[i].n_chars # LoopTrials[j].n_chars
                /\ (LoopTrials[i].failed => LoopTrials[j].n_chars < LoopTrials[i].n_chars)

\* A loop trial failed and the loop went on with a smaller one.
C20_Witness ==
    /\ pc = "loop_log" /\ loop_iters = 2
    /\ ~is_success(log[log_base + 1].outcome)
    /\ mid < log[log_base + 1].n_chars

\* C19: when the run is interrupted after a trial's HTTP call has completed and
\* before the next trial's request is dispatched, the log holds one record of
\* this run for every trial completed so far, the last of them that of the
\* most recent trial.
C19_InterruptKeepsLog ==
    pc \in {"interrupted_after_call", "interrupted_between"} /\ http_calls > 0 =>
        /\ Len(log) - log_base = http_calls
        /\ log[Len(log)].n_chars = rr.n_chars
        /\ log[Len(log)].outcome = rr.outcome

\* The interval main accepted.
lo0 == InitialLo(args, full_len)
hi0 == InitialHi(args, full_len)

Accepted == pc \notin {"start", "off", "bad_range"}

\* d / m <= 2^k, for d, m >= 1 and any integer k.
RatioFits(d, m, k) == IF k >= 0 THEN d <= m * 2^k ELSE d * 2^(0 - k) <= m

\* ceil(log2(d / m)): the least k with d / m <= 2^k.
CeilLog2(d, m) ==
    CHOOSE k \in (0 - MaxTol - 1)..MaxFullLen :
        RatioFits(d, m, k) /\ ~RatioFits(d, m, k - 1)

\* ceil(log2((hi - lo) / max(tolerance, 1))) + 1 for the accepted interval.
TrialBound == CeilLog2(hi0 - lo0, Max(args.tolerance, 1)) + 1

\* The final check comes after the loop trials and is the only trial after them.
OneFinalCheck ==
    /\ http_calls <= loop_iters + 1
    /\ (pc \in {"final_log", "report", "done"} => http_calls = loop_iters + 1)

\* C21 as stated: the loop trials are at most
\* ceil(log2((hi - lo) / max(tolerance, 1))) + 1, and one final check follows.
C21_TrialBoundAsStated == Accepted => loop_iters <= TrialBound /\ OneFinalCheck

\* C21: the loop trials are at most the stated bound where that bound is not
\* negative, and none otherwise; exactly one final check follows the loop.
C21_TrialBound == Accepted => loop_iters <= Max(0, TrialBound) /\ OneFinalCheck

\* A finished run with tolerance 1 whose loop ran twice.
C21_Witness ==
    /\ pc = "done" /\ args.tolerance = 1 /\ loop_iters = 2
    /\ loop_iters <= TrialBound /\ http_calls = 3


\* C22: a second run with the same command line on the same transcript, whose
\* trials get the outcomes the first run's trials got at the same lengths,
\* issues the same trial lengths in the same order, and ends the same way with
\* the same interval and the same report, whatever the log held before either.
C22_RerunRepeats ==
    first_run # <<>> =>
        /\ Len(IssuedLengths) <= Len(first_run[1].trials)
        /\ IssuedLengths = SubSeq(first_run[1].trials, 1, Len(IssuedLengths))
        /\ (pc \in {"done", "crashed"} =>
               /\ IssuedLengths = first_run[1].trials
               /\ lo = first_run[1].lo /\ hi = first_run[1].hi
               /\ report = first_run[1].report
               /\ pc = first_run[1].pc)

C22_Witness ==
    /\ first_run # <<>> /\ pc = "done"
    /\ Len(first_run[1].trials) >= 3
    /\ log_base >= 4 /\ log[1] = OldLine
    /\ report.kind = "best"


\* The service of the boundary scenario: a prompt of at most 6000 characters
\* gets a plain-text answer, a longer one an answer cut at the length limit.
ScenarioOutcome(n) == IF n <= 6000 THEN "OK_TEXT" ELSE "TRUNCATED"

ScenarioTrials ==
    /\ args = [min_chars |-> 2000, max_chars |-> 0, tolerance |-> 500,
               want_json |-> FALSE]
    /\ full_len = 10000
    /\ \A i \in RunLines : log[i].outcome = ScenarioOutcome(log[i].n_chars)

\* C23: in the boundary scenario (10,000 characters, min_chars 2000, no
\* max_chars, tolerance 500, success up to 6000 and truncation above) the
\* reported boundary lies in [5500, 6500], and the final check is made at the
\* converged hi and its record carries the service's outcome for that length.
C23_BoundaryScenario ==
    (pc = "done" /\ ScenarioTrials) =>
        /\ report.kind \in {"final", "best"}
        /\ report.n \in 5500..6500
        /\ final_n = hi
        /\ log[Len(log)].n_chars = hi
        /\ log[Len(log)].outcome = ScenarioOutcome(hi)
        /\ http_calls = loop_iters + 1

C23_Witness ==
    /\ pc = "done" /\ ScenarioTrials
    /\ loop_iters = 4
    /\ report = [kind |-> "best", n |-> 6000, failed_n |-> 6499]


\* No record of this run carries a success outcome.
NoSuccessLogged == \A i \in RunLines : log[i].outcome \notin SuccessCategories

\* C24: a run none of whose trials has a success outcome ends normally, with
\* the report "No successful size found": it does not end with an error and
\* its report names no boundary length.
C24_NoSuccessReported ==
    (pc \in {"done", "crashed"} /\ NoSuccessLogged) =>
        /\ pc = "done"
        /\ report = [kind |-> "no_success", n |-> 0, failed_n |-> 0]


\* The records of this run are those of a service that succeeds exactly on
\* the prompts of at most T characters.
MonotoneAt(T) ==
    \A i \in RunLines : is_success(log[i].outcome) <=> log[i].n_chars <= T

\* --max_chars, whose default 0 stands for no maximum.
CappedAt(T) == IF args.max_chars = 0 THEN T ELSE Min(T, args.max_chars)

\* C25: tolerance 0 is accepted, and a run with tolerance 0 whose outcomes are
\* monotone (success exactly for the lengths <= T, T a length of the
\* transcript with min_chars <= T) reports exactly min(T, max_chars).
C25_ZeroToleranceExact ==
    (pc = "done" /\ args.tolerance = 0) =>
        \A T \in 1..full_len :
            (args.min_chars <= T /\ MonotoneAt(T)) =>
                /\ report.kind \in {"final", "best"}
                /\ report.n = CappedAt(T)

C25_Witness ==
    /\ pc = "done" /\ args.tolerance = 0 /\ full_len = MaxFullLen
    /\ args.min_chars = 2 /\ args.max_chars = MaxFullLen - 1
    /\ MonotoneAt(3) /\ ~MonotoneAt(2) /\ ~MonotoneAt(4)
    /\ loop_iters >= 2
    /\ report.n = 3


\* C26: when no trial of a limit_probe_prod run succeeded (here: its log holds
\* no ok row at all), the RESULT block says so and prints no "Max-good" length.
C26_ProdNoSuccessStated ==
    (p_pc = "done" /\ \A i \in DOMAIN p_log : ~p_log[i].ok) =>
        "max_good" \notin DOMAIN p_report[1]

\* C28: once the loop of limit_probe_prod has exited, exactly one more trial is
\* run, at length max(1, min(hi, full_len)).
C28_ProdFinalLength ==
    p_pc \in {"report", "done"} =>
        p_log[Len(p_log)].n_chars = Max(1, Min(p_hi, p_full_len))


\* The response, stripped, begins with a numbered-list marker that is followed
\* by content other than the generic phrase "The speaker".
MarkerThenContent(t) ==
    /\ MatchNumbered(t) # 0
    /\ MatchNumbered(t) <= Len(t)
    /\ t[MatchNumbered(t)] # "SPK"

\* C27: a short response that begins with a numbered-list marker followed by
\* real content, not the generic continuation phrase, is not classified stub.
C27_ShortAnswerNotStub ==
    (c_pc = "classified" /\ MarkerThenContent(strip(c_in.text))) => c_out # "STUB"


\* C29: when the outcomes are those of a service that succeeds exactly on the
\* lengths <= T, the report is "No successful size found" only if T is below
\* the lower end of the accepted interval.
C29_NoSuccessOnlyBelowLo ==
    (pc = "done" /\ report.kind = "no_success") =>
        \A T \in 0..full_len : MonotoneAt(T) => T < lo0

\* C30: every trial, the final check included, is at a length inside the
\* accepted interval [lo0, hi0], which lies inside [1, full_len].
C30_TrialsInsideInterval ==
    Accepted =>
        /\ 1 <= lo0 /\ hi0 <= full_len
        /\ \A i \in 1..Len(IssuedLengths) :
              lo0 <= IssuedLengths[i] /\ IssuedLengths[i] <= hi0

=============================================================================
